---------------------------- MODULE Spec2Model ----------------------------
(***************************************************************************)
(* Account-mapping page (Exam-Tasks/Evaluation-Tasks/Task-1/app.js): the   *)
(* mapping grid (three ranked cells per source row), the destination       *)
(* list, the undo stack and the handlers that change them.                 *)
(*                                                                         *)
(* Conventions.  A string of the program is a sequence of one-character    *)
(* strings.  The page is a DOM: a mapping cell holds at most one           *)
(* .mapped-item (every writer empties the cell before it appends), a       *)
(* destination item carries the class mapped-hidden, its display state     *)
(* and whether a draggable is attached to it.  A drag gesture (start,      *)
(* drop, stop) runs without another user gesture in between and is one     *)
(* action; callbacks deferred by setTimeout / requestAnimationFrame are    *)
(* actions of their own.  jQuery UI is taken by its documented behaviour:  *)
(* draggable('destroy') removes the draggable, draggable(...) attaches it. *)
(***************************************************************************)
EXTENDS Integers, Sequences, FiniteSets, TLC

(***************************************************************************)
(* Bounds of the model                                                     *)
(***************************************************************************)
NumRows == 2
NumRecords == 5
MaxSteps == 2
MaxPendingRefresh == 1
MaxPushes == 12

(***************************************************************************)
(* Strings                                                                 *)
(***************************************************************************)
Lowers == <<"a","b","c","d","e","f","g","h","i","j","k","l","m",
            "n","o","p","q","r","s","t","u","v","w","x","y","z">>
Uppers == <<"A","B","C","D","E","F","G","H","I","J","K","L","M",
            "N","O","P","Q","R","S","T","U","V","W","X","Y","Z">>

upperChar(ch) ==
  IF \E i \in 1..26 : Lowers[i] = ch
  THEN Uppers[CHOOSE i \in 1..26 : Lowers[i] = ch]
  ELSE ch

lowerChar(ch) ==
  IF \E i \in 1..26 : Uppers[i] = ch
  THEN Lowers[CHOOSE i \in 1..26 : Uppers[i] = ch]
  ELSE ch

toUpperCase(s) == [i \in 1..Len(s) |-> upperChar(s[i])]
toLowerCase(s) == [i \in 1..Len(s) |-> lowerChar(s[i])]

RECURSIVE trimStart(_)
trimStart(s) == IF s # <<>> /\ Head(s) = " " THEN trimStart(Tail(s)) ELSE s

RECURSIVE trimEnd(_)
trimEnd(s) ==
  IF s # <<>> /\ s[Len(s)] = " " THEN trimEnd(SubSeq(s, 1, Len(s) - 1)) ELSE s

trim(s) == trimEnd(trimStart(s))

startsWith(s, p) == Len(p) <= Len(s) /\ SubSeq(s, 1, Len(p)) = p

includes(s, p) ==
  \E i \in 1..(Len(s) - Len(p) + 1) : SubSeq(s, i, i + Len(p) - 1) = p

(***************************************************************************)
(* FilterManager: the classifier of destination account types              *)
(***************************************************************************)
masterTypes ==
  <<"Assets", "Liabilities", "Equity", "Revenue", "COGS", "Expense",
    "Other Revenue & Expense">>

MasterTypeSet == {masterTypes[i] : i \in 1..Len(masterTypes)}

KW ==
  [OTHER |-> <<"O", "T", "H", "E", "R">>,
   ASSETS |-> <<"A", "S", "S", "E", "T", "S">>,
   ASSET |-> <<"A", "S", "S", "E", "T">>,
   LIABILITIES |-> <<"L", "I", "A", "B", "I", "L", "I", "T", "I", "E", "S">>,
   LIABILITY |-> <<"L", "I", "A", "B", "I", "L", "I", "T", "Y">>,
   EQUITY |-> <<"E", "Q", "U", "I", "T", "Y">>,
   REVENUE |-> <<"R", "E", "V", "E", "N", "U", "E">>,
   COGS |-> <<"C", "O", "G", "S">>,
   EXPENSE |-> <<"E", "X", "P", "E", "N", "S", "E">>,
   EXPENSES |-> <<"E", "X", "P", "E", "N", "S", "E", "S">>,
   CASH |-> <<"C", "A", "S", "H">>,
   FLOW |-> <<"F", "L", "O", "W">>,
   RECEIVABLE |-> <<"R", "E", "C", "E", "I", "V", "A", "B", "L", "E">>,
   PREPAID |-> <<"P", "R", "E", "P", "A", "I", "D">>,
   INVENTORY |-> <<"I", "N", "V", "E", "N", "T", "O", "R", "Y">>,
   FIXED |-> <<"F", "I", "X", "E", "D">>,
   PROPERTY |-> <<"P", "R", "O", "P", "E", "R", "T", "Y">>,
   EQUIPMENT |-> <<"E", "Q", "U", "I", "P", "M", "E", "N", "T">>,
   LIABIL |-> <<"L", "I", "A", "B", "I", "L">>,
   PAYABLE |-> <<"P", "A", "Y", "A", "B", "L", "E">>,
   ACCRUED |-> <<"A", "C", "C", "R", "U", "E", "D">>,
   DEBT |-> <<"D", "E", "B", "T">>,
   LOAN |-> <<"L", "O", "A", "N">>,
   CAPITAL |-> <<"C", "A", "P", "I", "T", "A", "L">>,
   RETAINED_EARNINGS |-> <<"R", "E", "T", "A", "I", "N", "E", "D", " ", "E", "A", "R", "N", "I", "N", "G", "S">>,
   SHARE |-> <<"S", "H", "A", "R", "E">>,
   SALES |-> <<"S", "A", "L", "E", "S">>,
   INCOME |-> <<"I", "N", "C", "O", "M", "E">>,
   OPERATING |-> <<"O", "P", "E", "R", "A", "T", "I", "N", "G">>,
   COST |-> <<"C", "O", "S", "T">>,
   GOODS |-> <<"G", "O", "O", "D", "S">>,
   PRODUCT |-> <<"P", "R", "O", "D", "U", "C", "T">>,
   SALE |-> <<"S", "A", "L", "E">>,
   COST_OF_GOODS_SOLD |-> <<"C", "O", "S", "T", " ", "O", "F", " ", "G", "O", "O", "D", "S", " ", "S", "O", "L", "D">>,
   GnA |-> <<"G", "&", "A">>,
   GENERAL |-> <<"G", "E", "N", "E", "R", "A", "L">>,
   ADMINISTRATIVE |-> <<"A", "D", "M", "I", "N", "I", "S", "T", "R", "A", "T", "I", "V", "E">>,
   LABOR |-> <<"L", "A", "B", "O", "R">>,
   PROFESSIONAL |-> <<"P", "R", "O", "F", "E", "S", "S", "I", "O", "N", "A", "L">>,
   OFFICE |-> <<"O", "F", "F", "I", "C", "E">>,
   RENT |-> <<"R", "E", "N", "T">>,
   UTILITIES |-> <<"U", "T", "I", "L", "I", "T", "I", "E", "S">>,
   DEPRECIATION |-> <<"D", "E", "P", "R", "E", "C", "I", "A", "T", "I", "O", "N">>,
   AMORTIZATION |-> <<"A", "M", "O", "R", "T", "I", "Z", "A", "T", "I", "O", "N">>]

mapDestToMasterType_NoOtherRule(destType, destGroup) ==
  LET upperType == trim(toUpperCase(destType))
      upperGroup == IF destGroup # <<>> THEN trim(toUpperCase(destGroup)) ELSE <<>>
      has(k) == includes(upperType, k)
  IN
  IF destType = <<>> THEN "Other Revenue & Expense"
  ELSE IF upperType = KW.ASSETS \/ upperType = KW.ASSET THEN "Assets"
  ELSE IF upperType = KW.LIABILITIES \/ upperType = KW.LIABILITY THEN "Liabilities"
  ELSE IF upperType = KW.EQUITY THEN "Equity"
  ELSE IF upperType = KW.REVENUE THEN "Revenue"
  ELSE IF upperType = KW.COGS THEN "COGS"
  ELSE IF upperType = KW.EXPENSE \/ upperType = KW.EXPENSES THEN "Expense"
  ELSE IF has(KW.ASSET) THEN "Assets"
  ELSE IF has(KW.CASH) /\ ~has(KW.FLOW) THEN "Assets"
  ELSE IF has(KW.RECEIVABLE) THEN "Assets"
  ELSE IF has(KW.PREPAID) THEN "Assets"
  ELSE IF has(KW.INVENTORY) THEN "Assets"
  ELSE IF has(KW.FIXED) \/ has(KW.PROPERTY) \/ has(KW.EQUIPMENT) THEN "Assets"
  ELSE IF has(KW.LIABIL) THEN "Liabilities"
  ELSE IF has(KW.PAYABLE) THEN "Liabilities"
  ELSE IF has(KW.ACCRUED) THEN "Liabilities"
  ELSE IF has(KW.DEBT) \/ has(KW.LOAN) THEN "Liabilities"
  ELSE IF has(KW.EQUITY) THEN "Equity"
  ELSE IF has(KW.CAPITAL) THEN "Equity"
  ELSE IF has(KW.RETAINED_EARNINGS) THEN "Equity"
  ELSE IF has(KW.SHARE) THEN "Equity"
  ELSE IF has(KW.REVENUE) THEN "Revenue"
  ELSE IF has(KW.SALES) THEN "Revenue"
  ELSE IF has(KW.INCOME) /\ ~has(KW.OPERATING) THEN "Revenue"
  ELSE IF has(KW.COST) /\ (has(KW.GOODS) \/ has(KW.PRODUCT) \/ has(KW.SALE)) THEN "COGS"
  ELSE IF upperType = KW.COST_OF_GOODS_SOLD THEN "COGS"
  ELSE IF has(KW.EXPENSE) THEN "Expense"
  ELSE IF has(KW.OPERATING) THEN "Expense"
  ELSE IF has(KW.GnA) \/ has(KW.GENERAL) \/ has(KW.ADMINISTRATIVE) THEN "Expense"
  ELSE IF has(KW.LABOR) THEN "Expense"
  ELSE IF has(KW.PROFESSIONAL) THEN "Expense"
  ELSE IF has(KW.OFFICE) THEN "Expense"
  ELSE IF has(KW.RENT) THEN "Expense"
  ELSE IF has(KW.UTILITIES) THEN "Expense"
  ELSE IF has(KW.DEPRECIATION) \/ has(KW.AMORTIZATION) THEN "Expense"
  ELSE "Other Revenue & Expense"

mapDestToMasterType_NoDefault(destType, destGroup) ==
  LET upperType == trim(toUpperCase(destType))
      upperGroup == IF destGroup # <<>> THEN trim(toUpperCase(destGroup)) ELSE <<>>
      has(k) == includes(upperType, k)
  IN
  IF destType = <<>> THEN "Other Revenue & Expense"
  ELSE IF startsWith(upperType, KW.OTHER \o <<" ">>)
          \/ startsWith(upperGroup, KW.OTHER \o <<" ">>)
       THEN "Other Revenue & Expense"
  ELSE IF (includes(upperType, <<" ">> \o KW.OTHER) \/ upperType = KW.OTHER)
          \/ (includes(upperGroup, <<" ">> \o KW.OTHER) \/ upperGroup = KW.OTHER)
       THEN "Other Revenue & Expense"
  ELSE IF upperType = KW.ASSETS \/ upperType = KW.ASSET THEN "Assets"
  ELSE IF upperType = KW.LIABILITIES \/ upperType = KW.LIABILITY THEN "Liabilities"
  ELSE IF upperType = KW.EQUITY THEN "Equity"
  ELSE IF upperType = KW.REVENUE THEN "Revenue"
  ELSE IF upperType = KW.COGS THEN "COGS"
  ELSE IF upperType = KW.EXPENSE \/ upperType = KW.EXPENSES THEN "Expense"
  ELSE IF has(KW.ASSET) THEN "Assets"
  ELSE IF has(KW.CASH) /\ ~has(KW.FLOW) THEN "Assets"
  ELSE IF has(KW.RECEIVABLE) THEN "Assets"
  ELSE IF has(KW.PREPAID) THEN "Assets"
  ELSE IF has(KW.INVENTORY) THEN "Assets"
  ELSE IF has(KW.FIXED) \/ has(KW.PROPERTY) \/ has(KW.EQUIPMENT) THEN "Assets"
  ELSE IF has(KW.LIABIL) THEN "Liabilities"
  ELSE IF has(KW.PAYABLE) THEN "Liabilities"
  ELSE IF has(KW.ACCRUED) THEN "Liabilities"
  ELSE IF has(KW.DEBT) \/ has(KW.LOAN) THEN "Liabilities"
  ELSE IF has(KW.EQUITY) THEN "Equity"
  ELSE IF has(KW.CAPITAL) THEN "Equity"
  ELSE IF has(KW.RETAINED_EARNINGS) THEN "Equity"
  ELSE IF has(KW.SHARE) THEN "Equity"
  ELSE IF has(KW.REVENUE) THEN "Revenue"
  ELSE IF has(KW.SALES) THEN "Revenue"
  ELSE IF has(KW.INCOME) /\ ~has(KW.OPERATING) THEN "Revenue"
  ELSE IF has(KW.COST) /\ (has(KW.GOODS) \/ has(KW.PRODUCT) \/ has(KW.SALE)) THEN "COGS"
  ELSE IF upperType = KW.COST_OF_GOODS_SOLD THEN "COGS"
  ELSE IF has(KW.EXPENSE) THEN "Expense"
  ELSE IF has(KW.OPERATING) THEN "Expense"
  ELSE IF has(KW.GnA) \/ has(KW.GENERAL) \/ has(KW.ADMINISTRATIVE) THEN "Expense"
  ELSE IF has(KW.LABOR) THEN "Expense"
  ELSE IF has(KW.PROFESSIONAL) THEN "Expense"
  ELSE IF has(KW.OFFICE) THEN "Expense"
  ELSE IF has(KW.RENT) THEN "Expense"
  ELSE IF has(KW.UTILITIES) THEN "Expense"
  ELSE IF has(KW.DEPRECIATION) \/ has(KW.AMORTIZATION) THEN "Expense"
  ELSE "undefined"

mapDestToMasterType(destType, destGroup) ==
  LET upperType == trim(toUpperCase(destType))
      upperGroup == IF destGroup # <<>> THEN trim(toUpperCase(destGroup)) ELSE <<>>
      has(k) == includes(upperType, k)
  IN
  IF destType = <<>> THEN "Other Revenue & Expense"
  ELSE IF startsWith(upperType, KW.OTHER \o <<" ">>)
          \/ startsWith(upperGroup, KW.OTHER \o <<" ">>)
       THEN "Other Revenue & Expense"
  ELSE IF (includes(upperType, <<" ">> \o KW.OTHER) \/ upperType = KW.OTHER)
          \/ (includes(upperGroup, <<" ">> \o KW.OTHER) \/ upperGroup = KW.OTHER)
       THEN "Other Revenue & Expense"
  ELSE IF upperType = KW.ASSETS \/ upperType = KW.ASSET THEN "Assets"
  ELSE IF upperType = KW.LIABILITIES \/ upperType = KW.LIABILITY THEN "Liabilities"
  ELSE IF upperType = KW.EQUITY THEN "Equity"
  ELSE IF upperType = KW.REVENUE THEN "Revenue"
  ELSE IF upperType = KW.COGS THEN "COGS"
  ELSE IF upperType = KW.EXPENSE \/ upperType = KW.EXPENSES THEN "Expense"
  ELSE IF has(KW.ASSET) THEN "Assets"
  ELSE IF has(KW.CASH) /\ ~has(KW.FLOW) THEN "Assets"
  ELSE IF has(KW.RECEIVABLE) THEN "Assets"
  ELSE IF has(KW.PREPAID) THEN "Assets"
  ELSE IF has(KW.INVENTORY) THEN "Assets"
  ELSE IF has(KW.FIXED) \/ has(KW.PROPERTY) \/ has(KW.EQUIPMENT) THEN "Assets"
  ELSE IF has(KW.LIABIL) THEN "Liabilities"
  ELSE IF has(KW.PAYABLE) THEN "Liabilities"
  ELSE IF has(KW.ACCRUED) THEN "Liabilities"
  ELSE IF has(KW.DEBT) \/ has(KW.LOAN) THEN "Liabilities"
  ELSE IF has(KW.EQUITY) THEN "Equity"
  ELSE IF has(KW.CAPITAL) THEN "Equity"
  ELSE IF has(KW.RETAINED_EARNINGS) THEN "Equity"
  ELSE IF has(KW.SHARE) THEN "Equity"
  ELSE IF has(KW.REVENUE) THEN "Revenue"
  ELSE IF has(KW.SALES) THEN "Revenue"
  ELSE IF has(KW.INCOME) /\ ~has(KW.OPERATING) THEN "Revenue"
  ELSE IF has(KW.COST) /\ (has(KW.GOODS) \/ has(KW.PRODUCT) \/ has(KW.SALE)) THEN "COGS"
  ELSE IF upperType = KW.COST_OF_GOODS_SOLD THEN "COGS"
  ELSE IF has(KW.EXPENSE) THEN "Expense"
  ELSE IF has(KW.OPERATING) THEN "Expense"
  ELSE IF has(KW.GnA) \/ has(KW.GENERAL) \/ has(KW.ADMINISTRATIVE) THEN "Expense"
  ELSE IF has(KW.LABOR) THEN "Expense"
  ELSE IF has(KW.PROFESSIONAL) THEN "Expense"
  ELSE IF has(KW.OFFICE) THEN "Expense"
  ELSE IF has(KW.RENT) THEN "Expense"
  ELSE IF has(KW.UTILITIES) THEN "Expense"
  ELSE IF has(KW.DEPRECIATION) \/ has(KW.AMORTIZATION) THEN "Expense"
  ELSE "Other Revenue & Expense"

\* normalizeTypeName: the type of a row of the master chart to one of the
\* standard types
normalizeTypeName(type) ==
  LET upperType == trim(toUpperCase(type))
      has(k) == includes(upperType, k)
  IN
  IF type = <<>> THEN "Other Revenue & Expense"
  ELSE IF upperType = KW.ASSETS \/ upperType = KW.ASSET THEN "Assets"
  ELSE IF upperType = KW.LIABILITIES \/ upperType = KW.LIABILITY THEN "Liabilities"
  ELSE IF \/ upperType = KW.EQUITY
          \/ upperType = KW.EQUITY \o <<"/">> \o KW.CAPITAL
          \/ has(KW.CAPITAL)
       THEN "Equity"
  ELSE IF upperType = KW.REVENUE THEN "Revenue"
  ELSE IF upperType = KW.COGS \/ upperType = KW.COST_OF_GOODS_SOLD THEN "COGS"
  ELSE IF upperType = KW.EXPENSE \/ upperType = KW.EXPENSES \/ has(KW.GnA) THEN "Expense"
  ELSE IF has(KW.OTHER) THEN "Other Revenue & Expense"
  ELSE IF has(KW.INCOME) /\ ~has(KW.OPERATING) THEN "Revenue"
  ELSE IF has(KW.SALES) THEN "Revenue"
  ELSE IF has(KW.COST) /\ (has(KW.GOODS) \/ has(KW.PRODUCT) \/ has(KW.SALE)) THEN "COGS"
  ELSE IF has(KW.OPERATING) THEN "Expense"
  ELSE IF has(KW.GnA) \/ has(KW.GENERAL) \/ has(KW.ADMINISTRATIVE) THEN "Expense"
  ELSE "Other Revenue & Expense"

(***************************************************************************)
(* Account type and group names given to the classifier                    *)
(***************************************************************************)
MaxWords == 3

\* words of account type names: the word OTHER, canonical names and keywords,
\* words that only contain OTHER, and a word that no rule knows
Others == KW.OTHER \o <<"S">>
IncomeOther == KW.INCOME \o <<"/">> \o KW.OTHER
Misc == <<"M", "I", "S", "C">>
TypeWords ==
  {KW.OTHER, KW.ASSETS, KW.OPERATING, KW.EXPENSE, KW.REVENUE, Others, IncomeOther, Misc}

\* the words of a name, joined by one space
RECURSIVE joinWords(_)
joinWords(ws) ==
  IF ws = <<>> THEN <<>>
  ELSE IF Len(ws) = 1 THEN ws[1]
  ELSE ws[1] \o <<" ">> \o joinWords(Tail(ws))

\* the names of up to MaxWords words, the empty name included
TypeNames == UNION {[1..n -> TypeWords] : n \in 0..MaxWords}
GroupNames == {<<>>, <<KW.OTHER>>, <<Misc, KW.OTHER>>, <<Misc>>, <<KW.ASSETS>>}

\* a name as a sheet may spell it: in upper, lower or mixed case, with spaces
\* before and after
Casings == {"upper", "lower", "mixed"}
Paddings == {0, 1} \X {0, 1}
spaces(n) == [i \in 1..n |-> " "]
spelled(ws, casing, padding) ==
  LET name == joinWords(ws)
      cased == IF casing = "upper" THEN name
               ELSE IF casing = "lower" THEN toLowerCase(name)
               ELSE [i \in 1..Len(name) |-> IF i % 2 = 0 THEN lowerChar(name[i])
                                            ELSE name[i]]
  IN IF ws = <<>> THEN <<>> ELSE spaces(padding[1]) \o cased \o spaces(padding[2])

(***************************************************************************)
(* The loaded data: destination accounts and the rows of the active type   *)
(***************************************************************************)
Records == 1..NumRecords
Rows == 1..NumRows
ColSet == {"most", "likely", "possible"}
NoItem == 0

TypeTable ==
  << <<"C", "a", "s", "h">>,
     <<"f", "i", "x", "e", "d", " ", "A", "s", "s", "e", "t">>,
     <<"A", "S", "S", "E", "T", "S">>,
     <<"P", "r", "e", "p", "a", "i", "d">>,
     <<"O", "t", "h", "e", "r", " ", "A", "s", "s", "e", "t", "s">>,
     <<"A", "c", "c", "o", "u", "n", "t", "s", " ", "P", "a", "y", "a", "b", "l", "e">>,
     <<"S", "a", "l", "e", "s">> >>

NameTable ==
  << <<"A", "b">>, <<"b">>, <<"a">>, <<"B", "a">>, <<"a", "b">>, <<"c">>, <<"A">> >>

NumberTable == << <<"1">>, <<"2">>, <<"3">>, <<"4">>, <<"5">>, <<"6">>, <<"7">> >>

allDestinationData ==
  [d \in Records |->
     LET k == ((d - 1) % Len(TypeTable)) + 1
     IN [id |-> d, number |-> NumberTable[k], name |-> NameTable[k],
         type |-> TypeTable[k], group |-> <<>>]]

DestMaster ==
  [d \in Records |->
     mapDestToMasterType(allDestinationData[d].type, allDestinationData[d].group)]

InitialType == "Assets"

\* masterData: the types of the master chart and, per type, the id (account
\* number) of each of its rows in row-index order; ids are unique within a
\* type, the two types share one account number
LoadedTypes == {"Assets", "Liabilities"}
masterData ==
  [t \in LoadedTypes |-> [r \in Rows |-> IF t = "Assets" THEN r ELSE r + 1]]
RowIds == UNION {{masterData[t][r] : r \in Rows} : t \in LoadedTypes}

\* the .type-btn buttons: the loaded types and one type without master data
TypeButtons == LoadedTypes \cup {"Equity"}

\* keys of localStorage, written without their common prefix account_mapping::
AuthKeys == {"auth_token", "auth_user", "users"}
MappingKey(type) == type
MappingKeys == {MappingKey("Assets"), MappingKey("Liabilities")}
StorageKeys == MappingKeys \cup AuthKeys

\* values of localStorage: no entry; a JSON value of the login page (without
\* updatedAt); a text that is not JSON (the token, or a damaged entry); a JSON
\* object of a mapping, with the fields it has
Absent == [kind |-> "absent"]
AuthValue == [kind |-> "auth"]
Malformed == [kind |-> "text"]

\* the .dest-filter buttons built by updateDestinationFilters: All, the standard
\* types that occur in the destination data, Other
standardTypes == {"Assets", "Liabilities", "Equity", "Revenue", "COGS", "Expense"}
FilterValues ==
  {""} \cup ({DestMaster[d] : d \in Records} \cap standardTypes) \cup {"Other"}
SearchInputs == {<<>>, <<"A">>, <<"c">>}

(***************************************************************************)
(* State                                                                   *)
(***************************************************************************)
VARIABLES
  cells,           \* cells[r][col]: id of the .mapped-item in the cell, or NoItem
  indicator,       \* indicator[r]: the row's tick mark is shown (no d-none)
  mappedHidden,    \* mappedHidden[d]: .dest-item d has the class mapped-hidden
  visible,         \* visible[d]: .dest-item d is displayed
  draggable,       \* draggable[d]: a draggable is attached to .dest-item d
  undoStack,       \* undoStack: [message, cells, indicator] snapshots, newest last
  localDestFilter, \* localDestFilter
  searchTerm,      \* searchTerm
  searchPending,   \* the debounce timer of safeSearch is set
  pendingRefresh,  \* number of setTimeout(100) refresh callbacks set by handleDrop
  rafPending,      \* a requestAnimationFrame callback of performUndo is set
  dialog,          \* the modal that is open: "none", "clear", "nothing", "save"
                   \* or "nochanges"
  storage,         \* localStorage: key -> value, Absent for no entry
  currentType,     \* currentType
  gridType,        \* the type whose rows are in #source-mapping-rows
  pendingRender,   \* number of fadeOut completions of switchType still to run
  storageAvailable, \* storageManager.storageAvailable
  submitDisabled,  \* the disabled property of #submitBtn
  pendingSave,     \* the mappingData the open "Save Mappings?" dialog holds
  pendingFrom,     \* history: the page pendingSave was collected from
  lastSave,        \* history: the last call of storageManager.saveMapping
  lastLoad,        \* history: the last call of loadPersistedMapping
  classified,      \* an account type and group, and what the classifier returns for them
  lastEval,        \* history: the last run of filterDestinationList
  steps,           \* number of user gestures so far (bounds the exploration)
  serials,         \* history: push number of each entry of undoStack
  pushCount,       \* history: number of snapshots pushed so far
  last             \* history: the last gesture and the grid before it

domVars == <<cells, indicator, mappedHidden, visible, draggable>>
filterVars == <<localDestFilter, searchTerm, searchPending>>
timerVars == <<pendingRefresh, rafPending>>
undoVars == <<undoStack, serials, pushCount>>
pageVars == <<currentType, gridType, pendingRender>>
saveVars == <<storageAvailable, submitDisabled, pendingSave, pendingFrom, lastSave>>
sessionVars == <<pageVars, saveVars, lastLoad, classified, lastEval>>
vars == <<cells, indicator, mappedHidden, visible, draggable, undoStack,
          localDestFilter, searchTerm, searchPending, pendingRefresh, rafPending,
          dialog, storage, steps, serials, pushCount, last, currentType, gridType,
          pendingRender, storageAvailable, submitDisabled, pendingSave, pendingFrom, lastSave,
          lastLoad, classified,
          lastEval>>

EmptyGrid == [r \in Rows |-> [c \in ColSet |-> NoItem]]

\* no mappingData is held by a dialog
NoSave == [kind |-> "none"]
NoPage == [type |-> "", cells |-> EmptyGrid]

NoOp ==
  [op |-> "none", r |-> 0, c |-> "", d |-> NoItem, fr |-> 0, fc |-> "",
   pre |-> EmptyGrid, prevOp |-> "none", prevPre |-> EmptyGrid]

Gesture(op, r, c, d, fr, fc) ==
  [op |-> op, r |-> r, c |-> c, d |-> d, fr |-> fr, fc |-> fc,
   pre |-> cells, prevOp |-> last.op, prevPre |-> last.pre]

(***************************************************************************)
(* Destination list: filter, search, draggable                             *)
(***************************************************************************)
showItem(d, filter, term) ==
  LET item == allDestinationData[d]
      itemText == toLowerCase(item.number \o <<" ">> \o item.name)
      itemMasterType == DestMaster[d]
      byFilter ==
        IF filter # ""
        THEN IF filter = "Other"
             THEN itemMasterType = "Other Revenue & Expense"
             ELSE itemMasterType = filter
        ELSE TRUE
      bySearch == ~(term # <<>> /\ ~includes(itemText, term))
  IN byFilter /\ bySearch

filterDestinationList(mh, vis, filter, term) ==
  [d \in Records |-> IF mh[d] THEN FALSE ELSE showItem(d, filter, term)]

makeDestinationDraggable(vis) == [d \in Records |-> vis[d]]

(***************************************************************************)
(* Undo stack                                                              *)
(***************************************************************************)
UndoLimit == 10

\* undoStack.push(state); if (undoStack.length > 10) undoStack.shift()
\* variant: undoStack.pop() in place of undoStack.shift() when over the limit
saveUndoState_DropNewest(stack, state) ==
  LET pushed == Append(stack, state)
  IN IF Len(pushed) > UndoLimit THEN SubSeq(pushed, 1, UndoLimit) ELSE pushed

saveUndoState(stack, state) ==
  LET pushed == Append(stack, state)
  IN IF Len(pushed) > UndoLimit THEN Tail(pushed) ELSE pushed

\* { message, html: $('#source-mapping-rows').html() }: the rows with their
\* cells and their tick marks
Snapshot(message) ==
  [message |-> message, type |-> gridType, cells |-> cells, indicator |-> indicator]

\* one call of saveUndoState(message)
PushOne(message) ==
  /\ undoStack' = saveUndoState(undoStack, Snapshot(message))
  /\ serials' = saveUndoState(serials, pushCount + 1)
  /\ pushCount' = pushCount + 1

\* two calls in a row, the grid not changed in between: the drag start of a
\* mapped item, then handleDrop
PushTwo(message) ==
  /\ undoStack' = saveUndoState(saveUndoState(undoStack, Snapshot(message)),
                                Snapshot(message))
  /\ serials' = saveUndoState(saveUndoState(serials, pushCount + 1), pushCount + 2)
  /\ pushCount' = pushCount + 2

(***************************************************************************)
(* Grid operations on a DOM value s = [cells, mappedHidden, visible,       *)
(* draggable]                                                              *)
(***************************************************************************)
Dom == [cells |-> cells, mappedHidden |-> mappedHidden, visible |-> visible,
        draggable |-> draggable]

\* show the destination item, drop its mapped-hidden class, re-attach the
\* draggables, remove the mapped item
returnToDestination(s, r, c) ==
  LET itemId == s.cells[r][c]
      vis == [s.visible EXCEPT ![itemId] = TRUE]
  IN [cells |-> [s.cells EXCEPT ![r][c] = NoItem],
      mappedHidden |-> [s.mappedHidden EXCEPT ![itemId] = FALSE],
      visible |-> vis,
      draggable |-> makeDestinationDraggable(vis)]

\* variant: the occupant of Possible is overwritten, never returned to the list
performShifting_NoEvict(s, r, targetCol) ==
  LET row == s.cells[r]
  IN
  IF targetCol = "most"
  THEN LET s1 == IF row["likely"] # NoItem
                 THEN [s EXCEPT !.cells[r]["possible"] = row["likely"],
                                !.cells[r]["likely"] = NoItem]
                 ELSE s
       IN [s1 EXCEPT !.cells[r]["likely"] = row["most"], !.cells[r]["most"] = NoItem]
  ELSE IF targetCol = "likely"
  THEN [s EXCEPT !.cells[r]["possible"] = row["likely"], !.cells[r]["likely"] = NoItem]
  ELSE IF targetCol = "possible"
  THEN returnToDestination(s, r, "possible")
  ELSE s

\* variant: with Likely empty the occupant of Most is pushed to Possible
performShifting_PushToPossible(s, r, targetCol) ==
  LET row == s.cells[r]
      evictPossible == IF row["possible"] # NoItem
                       THEN returnToDestination(s, r, "possible")
                       ELSE s
  IN
  IF targetCol = "most"
  THEN LET s1 == IF row["likely"] # NoItem
                 THEN [evictPossible EXCEPT !.cells[r]["possible"] = row["likely"],
                                            !.cells[r]["likely"] = NoItem]
                 ELSE s
       IN IF row["likely"] # NoItem
          THEN [s1 EXCEPT !.cells[r]["likely"] = row["most"], !.cells[r]["most"] = NoItem]
          ELSE [evictPossible EXCEPT !.cells[r]["possible"] = row["most"],
                                     !.cells[r]["most"] = NoItem]
  ELSE IF targetCol = "likely"
  THEN [evictPossible EXCEPT !.cells[r]["possible"] = row["likely"],
                             !.cells[r]["likely"] = NoItem]
  ELSE IF targetCol = "possible"
  THEN returnToDestination(s, r, "possible")
  ELSE s

\* variant: the occupant of Possible is returned to the list whenever Most is
\* the target, Likely occupied or not
performShifting_EvictAlways(s, r, targetCol) ==
  LET row == s.cells[r]
      evictPossible == IF row["possible"] # NoItem
                       THEN returnToDestination(s, r, "possible")
                       ELSE s
  IN
  IF targetCol = "most"
  THEN LET s1 == IF row["likely"] # NoItem
                 THEN [evictPossible EXCEPT !.cells[r]["possible"] = row["likely"],
                                            !.cells[r]["likely"] = NoItem]
                 ELSE evictPossible
       IN [s1 EXCEPT !.cells[r]["likely"] = row["most"], !.cells[r]["most"] = NoItem]
  ELSE IF targetCol = "likely"
  THEN [evictPossible EXCEPT !.cells[r]["possible"] = row["likely"],
                             !.cells[r]["likely"] = NoItem]
  ELSE IF targetCol = "possible"
  THEN returnToDestination(s, r, "possible")
  ELSE s

\* the target cell (r, targetCol) is occupied: shift its occupant down
performShifting(s, r, targetCol) ==
  LET row == s.cells[r]
      evictPossible == IF row["possible"] # NoItem
                       THEN returnToDestination(s, r, "possible")
                       ELSE s
  IN
  IF targetCol = "most"
  THEN LET s1 == IF row["likely"] # NoItem
                 THEN [evictPossible EXCEPT !.cells[r]["possible"] = row["likely"],
                                            !.cells[r]["likely"] = NoItem]
                 ELSE s
       IN [s1 EXCEPT !.cells[r]["likely"] = row["most"], !.cells[r]["most"] = NoItem]
  ELSE IF targetCol = "likely"
  THEN [evictPossible EXCEPT !.cells[r]["possible"] = row["likely"],
                             !.cells[r]["likely"] = NoItem]
  ELSE IF targetCol = "possible"
  THEN returnToDestination(s, r, "possible")
  ELSE s

\* variant: a moved item is not removed from the cell it is dragged from
handleDrop_KeepDragged(s, r, c, itemId, isFromDestination, fr, fc) ==
  LET s1 == IF isFromDestination
            THEN [s EXCEPT !.mappedHidden[itemId] = TRUE]
            ELSE s
      s2 == IF s1.cells[r][c] # NoItem THEN performShifting(s1, r, c) ELSE s1
  IN [s2 EXCEPT !.cells[r][c] = itemId]

\* handleDrop after its saveUndoState: the dragged item is marked (from the
\* list) or removed from its cell (from the grid), the occupant of the target
\* is shifted, the new mapped item is put into the target cell
handleDrop(s, r, c, itemId, isFromDestination, fr, fc) ==
  LET s1 == IF isFromDestination
            THEN [s EXCEPT !.mappedHidden[itemId] = TRUE]
            ELSE [s EXCEPT !.cells[fr][fc] = NoItem]
      s2 == IF s1.cells[r][c] # NoItem THEN performShifting(s1, r, c) ELSE s1
  IN [s2 EXCEPT !.cells[r][c] = itemId]

hasMappings(g, r) == \E c \in ColSet : g[r][c] # NoItem

updateSourceRowIndicator(ind, g, r) == [ind EXCEPT ![r] = hasMappings(g, r)]

SetDom(s) ==
  /\ cells' = s.cells
  /\ mappedHidden' = s.mappedHidden
  /\ visible' = s.visible
  /\ draggable' = s.draggable

(***************************************************************************)
(* Rendering a type and loading its persisted mapping                      *)
(***************************************************************************)
\* what saveMapping stores for a mapped item
PersistedItem(d) ==
  [id |-> d, number |-> allDestinationData[d].number, name |-> allDestinationData[d].name]

(***************************************************************************)
(* StorageManager                                                          *)
(***************************************************************************)
maxRetries == 3
SizeCap == 5000000

\* validateMapping: an object with a type and rows
validateMapping(data) ==
  data.kind = "mapping" /\ "type" \in DOMAIN data /\ "rows" \in DOMAIN data

\* StorageManager.loadMapping: what it returns (Absent for null) and the
\* storage it leaves; only a SyntaxError of JSON.parse removes the key
loadMapping(store, type) ==
  LET key == MappingKey(type)
      data == store[key]
  IN IF data.kind = "absent" THEN [parsed |-> Absent, store |-> store]
     ELSE IF data.kind = "text"
          THEN [parsed |-> Absent, store |-> [store EXCEPT ![key] = Absent]]
     ELSE IF ~validateMapping(data) THEN [parsed |-> Absent, store |-> store]
     ELSE [parsed |-> data, store |-> store]

\* cleanOldData: every key with the prefix whose value does not parse, or
\* whose updatedAt is more than 30 days old, is removed
cleanOldData(store) ==
  [k \in DOMAIN store |->
     LET v == store[k]
     IN IF v.kind = "text" THEN Absent
        ELSE IF "updatedAt" \in DOMAIN v /\ v.updatedAt = "old" THEN Absent
        ELSE v]

\* the while loop of StorageManager.saveMapping from attempt number
\* acc.attempts + 1 on; size is serialized.length, writes[i] is what the i-th
\* localStorage.setItem does: "ok", "quota" (QuotaExceededError) or "error"
RECURSIVE saveAttempts(_, _, _, _, _, _)
saveAttempts(store, key, data, size, writes, acc) ==
  IF size > SizeCap
  THEN [result |-> "thrown", store |-> store, attempts |-> acc.attempts + 1,
        cleanups |-> acc.cleanups, tried |-> acc.tried]
  ELSE LET w == writes[acc.tried + 1]
       IN IF w = "ok"
          THEN [result |-> "success", store |-> [store EXCEPT ![key] = data],
                attempts |-> acc.attempts, cleanups |-> acc.cleanups,
                tried |-> acc.tried + 1]
          ELSE IF w = "quota"
          THEN LET cleaned == cleanOldData(store)
                   next == [attempts |-> acc.attempts + 1,
                            cleanups |-> acc.cleanups + 1, tried |-> acc.tried + 1]
               IN IF next.attempts = maxRetries
                  THEN [result |-> "fallback", store |-> cleaned,
                        attempts |-> next.attempts, cleanups |-> next.cleanups,
                        tried |-> next.tried]
                  ELSE saveAttempts(cleaned, key, data, size, writes, next)
          ELSE [result |-> "thrown", store |-> store, attempts |-> acc.attempts + 1,
                cleanups |-> acc.cleanups, tried |-> acc.tried + 1]

\* StorageManager.saveMapping(type, data): "success" is { success: true },
\* "fallback" is what fallbackSave returns, "thrown" is a StorageError
StorageManager_saveMapping_NoRetry(store, available, type, data, size, writes) ==
  IF ~available
  THEN [result |-> "fallback", store |-> store, attempts |-> 0, cleanups |-> 0,
        tried |-> 0]
  ELSE saveAttempts(store, MappingKey(type), data, size, writes,
                    [attempts |-> maxRetries - 1, cleanups |-> 0, tried |-> 0])

StorageManager_saveMapping(store, available, type, data, size, writes) ==
  IF ~available
  THEN [result |-> "fallback", store |-> store, attempts |-> 0, cleanups |-> 0,
        tried |-> 0]
  ELSE saveAttempts(store, MappingKey(type), data, size, writes,
                    [attempts |-> 0, cleanups |-> 0, tried |-> 0])

\* the inputs of a save that the model draws: the length of the serialized
\* mapping and what each setItem does
SerializedSizes == {SizeCap, SizeCap + 1}
WriteOutcomes == {"ok", "quota", "error"}

NoSaveYet ==
  [result |-> "none", attempts |-> 0, cleanups |-> 0, tried |-> 0, writes |-> <<>>,
   size |-> 0, available |-> TRUE, data |-> NoSave, from |-> NoPage, key |-> ""]

(***************************************************************************)
(* Rendering a type and loading what is stored for it                      *)
(***************************************************************************)
\* the row index of the row with the id, 0 when the type has no such row
rowIndexOf(type, id) ==
  IF \E r \in Rows : masterData[type][r] = id
  THEN CHOOSE r \in Rows : masterData[type][r] = id
  ELSE 0

\* mappingData.rows as saveMapping collects it from the rows of the page: one
\* entry per row with a mapped item, keyed by row id, one field per filled cell
collectRows_ByIndex(type, g) ==
  [r \in {x \in Rows : \E c \in ColSet : g[x][c] # NoItem}
     |-> [c \in {x \in ColSet : g[r][x] # NoItem} |-> PersistedItem(g[r][c])]]

\* variant: every row and every column is written, null for an empty cell
collectRows_NullSlots(type, g) ==
  [id \in {masterData[type][r] : r \in Rows}
     |-> LET r == rowIndexOf(type, id)
         IN [c \in ColSet |-> IF g[r][c] # NoItem THEN PersistedItem(g[r][c])
                              ELSE [id |-> NoItem, number |-> <<>>, name |-> <<>>]]]

collectRows(type, g) ==
  [id \in {masterData[type][r] : r \in {x \in Rows : \E c \in ColSet : g[x][c] # NoItem}}
     |-> LET r == rowIndexOf(type, id)
         IN [c \in {x \in ColSet : g[r][x] # NoItem} |-> PersistedItem(g[r][c])]]

mappedCount(g) == Cardinality({rc \in Rows \X ColSet : g[rc[1]][rc[2]] # NoItem})

\* renderCombinedStructure and renderDestinationList: empty cells, hidden tick
\* marks, fresh destination items, filtered and made draggable
Rendered(filter, term) ==
  LET none == [d \in Records |-> FALSE]
      vis == filterDestinationList(none, none, filter, term)
  IN [cells |-> EmptyGrid, mappedHidden |-> none, visible |-> vis,
      draggable |-> makeDestinationDraggable(vis)]

\* the cells of a row of the page after the entries of rowData are applied
LoadedRow(rowData) ==
  [c \in ColSet |-> IF c \in DOMAIN rowData THEN rowData[c].id ELSE NoItem]

\* loadPersistedMapping on a freshly rendered page s of the type: rows whose id
\* is not on the page are skipped
loadPersistedMapping(s, mappingData, type) ==
  IF mappingData.kind # "mapping" THEN s
  ELSE
  LET rows == mappingData.rows
      known == {id \in DOMAIN rows : rowIndexOf(type, id) # 0}
      loaded == {rows[id][c].id : <<id, c>> \in
                   {rc \in known \X ColSet : rc[2] \in DOMAIN rows[rc[1]]}}
      vis == [d \in Records |-> IF d \in loaded THEN FALSE ELSE s.visible[d]]
  IN [cells |-> [r \in Rows |-> IF masterData[type][r] \in known
                                THEN LoadedRow(rows[masterData[type][r]])
                                ELSE s.cells[r]],
      mappedHidden |-> [d \in Records |-> IF d \in loaded THEN TRUE
                                          ELSE s.mappedHidden[d]],
      visible |-> vis,
      draggable |-> makeDestinationDraggable(vis)]

\* what loadPersistedMapping hands back or throws: nothing, a row that is not
\* found ends the callback of its entry with a plain return
NoError == "none"

\* the completion callback of the fadeOut of switchType: the page of the type
\* is rendered and what is stored for the type is loaded. page is the DOM,
\* store the storage it leaves, load and eval the history of the two calls
renderResult(store, type, filter, term, fresh, loaded, page) ==
  [page |-> page,
   indicator |-> [r \in Rows |-> \E c \in ColSet : page.cells[r][c] # NoItem],
   store |-> loaded.store,
   load |-> [type |-> type, stored |-> store[MappingKey(type)],
             parsed |-> loaded.parsed, after |-> loaded.store[MappingKey(type)],
             error |-> NoError],
   eval |-> [type |-> type, cells |-> EmptyGrid, filter |-> filter, term |-> term,
             out |-> fresh.visible]]

renderWith(store, type, filter, term, fresh, loaded) ==
  renderResult(store, type, filter, term, fresh, loaded,
               loadPersistedMapping(fresh, loaded.parsed, type))

renderAndLoad(store, type, filter, term) ==
  renderWith(store, type, filter, term, Rendered(filter, term), loadMapping(store, type))

\* mappings an earlier session may have saved for the initial type
SavedMappings ==
  { Absent,
    [kind |-> "mapping", type |-> InitialType, updatedAt |-> "fresh",
     rows |-> (1 :> [most |-> PersistedItem(1), likely |-> PersistedItem(2),
                     possible |-> PersistedItem(3)])],
    [kind |-> "mapping", type |-> InitialType, updatedAt |-> "fresh",
     rows |-> (1 :> [most |-> PersistedItem(2), possible |-> PersistedItem(1)])
              @@ (2 :> [likely |-> PersistedItem(3)])] }

\* damaged entries: a text that is not JSON, a JSON object without rows
NoRows == [kind |-> "mapping", type |-> InitialType, updatedAt |-> "fresh"]
DamagedValues == {Malformed, NoRows}

\* an entry of the other type, saved more than 30 days ago, one of whose row
\* ids is no row of the master data of its type any more
OldMapping ==
  [kind |-> "mapping", type |-> "Liabilities", updatedAt |-> "old",
   rows |-> (2 :> [most |-> PersistedItem(4)]) @@ (1 :> [likely |-> PersistedItem(5)])]

\* no account is being classified
NotClassified ==
  [typeWords |-> <<>>, groupWords |-> <<>>, casing |-> "upper", padding |-> <<0, 0>>,
   destType |-> <<>>, destGroup |-> <<>>, out |-> "none", norm |-> "none"]

(***************************************************************************)
(* Initial state: the page after loadExcelData -> switchType(currentType)  *)
(* has rendered and loaded what is stored for the type                     *)
(***************************************************************************)
\* the page and the storage as a run of the fadeOut callback leaves them
InitPage(shown) ==
  /\ storage = shown.store
  /\ cells = shown.page.cells
  /\ mappedHidden = shown.page.mappedHidden
  /\ visible = shown.page.visible
  /\ draggable = shown.page.draggable
  /\ indicator = shown.indicator
  /\ lastLoad = shown.load
  /\ lastEval = shown.eval

\* what localStorage holds when the page opens
FoundStorage(saved, other) ==
  [k \in StorageKeys |->
     IF k = "auth_token" THEN Malformed
     ELSE IF k \in AuthKeys THEN AuthValue
     ELSE IF k = MappingKey(InitialType) THEN saved
     ELSE other]

InitFrom(storedValues, otherValues, availabilities) ==
  /\ \E saved \in storedValues, other \in otherValues :
       InitPage(renderAndLoad(FoundStorage(saved, other), InitialType, InitialType, <<>>))
  /\ storageAvailable \in availabilities
  /\ submitDisabled = FALSE
  /\ currentType = InitialType
  /\ gridType = InitialType
  /\ pendingRender = 0
  /\ pendingSave = NoSave
  /\ pendingFrom = NoPage
  /\ lastSave = NoSaveYet
  /\ localDestFilter = InitialType
  /\ searchTerm = <<>>
  /\ undoStack = <<>>
  /\ searchPending = FALSE
  /\ pendingRefresh = 0
  /\ rafPending = FALSE
  /\ dialog = "none"
  /\ steps = 0
  /\ serials = <<>>
  /\ pushCount = 0
  /\ last = NoOp

Init == InitFrom(SavedMappings, {Absent}, {TRUE}) /\ classified = NotClassified

\* the same with every kind of stored entry and a storage that the
\* constructor may have found unavailable
InitStore ==
  /\ InitFrom(SavedMappings \cup DamagedValues, {Absent, OldMapping}, BOOLEAN)
  /\ classified = NotClassified

\* the page as it opens on empty storage, and the type and group of an account
\* about to be classified
InitClassify ==
  /\ InitFrom({Absent}, {Absent}, {TRUE})
  /\ \E tw \in TypeNames, gw \in GroupNames, casing \in Casings, padding \in Paddings :
       classified = [typeWords |-> tw, groupWords |-> gw, casing |-> casing,
                     padding |-> padding, destType |-> spelled(tw, casing, padding),
                     destGroup |-> spelled(gw, casing, padding), out |-> "none",
                     norm |-> "none"]

\* type names given to both normalizers: the standard names and the words
\* OTHER, CAPITAL and G&A, alone and combined, and a word no rule knows
NormWords == {KW.OTHER, KW.CAPITAL, KW.GnA, KW.ASSETS, KW.EXPENSE, Misc}
NormNames == UNION {[1..n -> NormWords] : n \in 0..MaxWords}

InitNormalize ==
  /\ InitFrom({Absent}, {Absent}, {TRUE})
  /\ \E tw \in NormNames, casing \in Casings, padding \in Paddings :
       classified = [typeWords |-> tw, groupWords |-> <<>>, casing |-> casing,
                     padding |-> padding, destType |-> spelled(tw, casing, padding),
                     destGroup |-> <<>>, out |-> "none", norm |-> "none"]

(***************************************************************************)
(* Gestures on the grid                                                    *)
(***************************************************************************)
\* a destination item is dragged from the list and dropped on cell (r, c):
\* draggable start (hide), handleDrop, draggable stop
DropFromList(r, c, d) ==
  /\ dialog = "none"
  /\ visible[d] /\ draggable[d]
  /\ pendingRefresh < MaxPendingRefresh
  /\ PushOne("Item moved")
  /\ LET started == [Dom EXCEPT !.visible[d] = FALSE]
         dropped == handleDrop(started, r, c, d, TRUE, 0, "")
         stopped == [dropped EXCEPT !.visible[d] = ~dropped.mappedHidden[d]]
     IN /\ SetDom(stopped)
        /\ indicator' = updateSourceRowIndicator(indicator, stopped.cells, r)
  /\ pendingRefresh' = pendingRefresh + 1
  /\ last' = Gesture("drop", r, c, d, 0, "")
  /\ UNCHANGED <<filterVars, rafPending, dialog, storage, sessionVars>>

\* the mapped item of cell (fr, fc) is dragged and dropped on cell (r, c):
\* draggable start (saveUndoState), handleDrop
MoveMapped(fr, fc, r, c) ==
  /\ dialog = "none"
  /\ cells[fr][fc] # NoItem
  /\ pendingRefresh < MaxPendingRefresh
  /\ PushTwo("Item moved")
  /\ LET dropped == handleDrop(Dom, r, c, cells[fr][fc], FALSE, fr, fc)
     IN /\ SetDom(dropped)
        /\ indicator' = updateSourceRowIndicator(indicator, dropped.cells, r)
  /\ pendingRefresh' = pendingRefresh + 1
  /\ last' = Gesture("move", r, c, cells[fr][fc], fr, fc)
  /\ UNCHANGED <<filterVars, rafPending, dialog, storage, sessionVars>>

\* the mapped item of cell (fr, fc) is dragged and dropped on the list:
\* draggable start (saveUndoState), returnToDestination
ReturnMapped(fr, fc) ==
  /\ dialog = "none"
  /\ cells[fr][fc] # NoItem
  /\ PushOne("Item moved")
  /\ SetDom(returnToDestination(Dom, fr, fc))
  /\ last' = Gesture("return", fr, fc, cells[fr][fc], fr, fc)
  /\ UNCHANGED <<indicator, filterVars, timerVars, dialog, storage, sessionVars>>

\* the mapped item of cell (fr, fc) is dragged and dropped on no droppable:
\* draggable start (saveUndoState), revert
RevertMapped(fr, fc) ==
  /\ dialog = "none"
  /\ cells[fr][fc] # NoItem
  /\ PushOne("Item moved")
  /\ last' = Gesture("revert", fr, fc, cells[fr][fc], fr, fc)
  /\ UNCHANGED <<domVars, filterVars, timerVars, dialog, storage, sessionVars>>

\* variant: saveUndoState is called after returnToDestination
removeMappedItem_SnapshotAfter(fr, fc) ==
  /\ dialog = "none"
  /\ cells[fr][fc] # NoItem
  /\ LET returned == returnToDestination(Dom, fr, fc)
     IN /\ SetDom(returned)
        /\ indicator' = updateSourceRowIndicator(indicator, returned.cells, fr)
        /\ undoStack' = saveUndoState(undoStack,
                            [message |-> "Item removed", cells |-> returned.cells,
                             indicator |-> indicator])
  /\ serials' = saveUndoState(serials, pushCount + 1)
  /\ pushCount' = pushCount + 1
  /\ last' = Gesture("remove", fr, fc, cells[fr][fc], fr, fc)
  /\ UNCHANGED <<filterVars, timerVars, dialog, storage, sessionVars>>

\* variant: the occupants of the lower tiers of the row move up into the gap
removeMappedItem_Promote(fr, fc) ==
  /\ dialog = "none"
  /\ cells[fr][fc] # NoItem
  /\ PushOne("Item removed")
  /\ LET returned == returnToDestination(Dom, fr, fc)
         row == returned.cells[fr]
         promoted == IF fc = "most"
                     THEN [most |-> row.likely, likely |-> row.possible,
                           possible |-> NoItem]
                     ELSE IF fc = "likely"
                     THEN [row EXCEPT !.likely = row.possible, !.possible = NoItem]
                     ELSE row
     IN /\ SetDom([returned EXCEPT !.cells[fr] = promoted])
        /\ indicator' = updateSourceRowIndicator(indicator, returned.cells, fr)
  /\ last' = Gesture("remove", fr, fc, cells[fr][fc], fr, fc)
  /\ UNCHANGED <<filterVars, timerVars, dialog, storage, sessionVars>>

\* click on the remove button of the mapped item of cell (fr, fc)
removeMappedItem(fr, fc) ==
  /\ dialog = "none"
  /\ cells[fr][fc] # NoItem
  /\ PushOne("Item removed")
  /\ LET returned == returnToDestination(Dom, fr, fc)
     IN /\ SetDom(returned)
        /\ indicator' = updateSourceRowIndicator(indicator, returned.cells, fr)
  /\ last' = Gesture("remove", fr, fc, cells[fr][fc], fr, fc)
  /\ UNCHANGED <<filterVars, timerVars, dialog, storage, sessionVars>>

\* variant: undoStack.shift(), the oldest entry is taken
popState_Shift(stack) == [state |-> stack[1], rest |-> Tail(stack)]

\* variant: the newest entry is read and left on the stack
popState_Peek(stack) == [state |-> stack[Len(stack)], rest |-> stack]

\* undoStack.pop(): the entry taken and the stack that is left
popState(stack) ==
  [state |-> stack[Len(stack)], rest |-> SubSeq(stack, 1, Len(stack) - 1)]

\* click on the undo button
performUndo ==
  /\ dialog = "none"
  /\ IF undoStack = <<>>
     THEN UNCHANGED <<domVars, undoVars, rafPending, gridType>>
     ELSE LET popped == popState(undoStack)
              state == popped.state
          IN /\ undoStack' = popped.rest
             /\ serials' = popState(serials).rest
             /\ cells' = state.cells
             /\ indicator' = state.indicator
             /\ draggable' = makeDestinationDraggable(visible)
             /\ gridType' = state.type
             /\ rafPending' = TRUE
             /\ UNCHANGED <<mappedHidden, visible, pushCount>>
  /\ last' = Gesture(IF undoStack = <<>> THEN "undoEmpty" ELSE "undo", 0, "", NoItem, 0, "")
  /\ UNCHANGED <<filterVars, pendingRefresh, dialog, storage, currentType,
                 pendingRender, saveVars, lastLoad, classified, lastEval>>

\* the requestAnimationFrame callback of performUndo
UndoIndicators ==
  /\ rafPending
  /\ rafPending' = FALSE
  /\ indicator' = [r \in Rows |-> hasMappings(cells, r)]
  /\ UNCHANGED <<cells, mappedHidden, visible, draggable, undoVars, filterVars,
                 pendingRefresh, dialog, storage, sessionVars, steps, last>>

\* the setTimeout(..., 100) callback of handleDrop
RefreshDraggable ==
  /\ pendingRefresh > 0
  /\ pendingRefresh' = pendingRefresh - 1
  /\ draggable' = makeDestinationDraggable(visible)
  /\ UNCHANGED <<cells, indicator, mappedHidden, visible, undoVars, filterVars,
                 rafPending, dialog, storage, sessionVars, steps, last>>

(***************************************************************************)
(* Filter, search, clear-all                                               *)
(***************************************************************************)
\* history: the grid, filter and term a run of filterDestinationList found, and
\* the items it left displayed
Evaluation(filter, term, out) ==
  [type |-> gridType, cells |-> cells, filter |-> filter, term |-> term, out |-> out]

\* click on a .dest-filter button
FilterClick(f) ==
  /\ dialog = "none"
  /\ localDestFilter' = f
  /\ visible' = filterDestinationList(mappedHidden, visible, f, searchTerm)
  /\ lastEval' = Evaluation(f, searchTerm, visible')
  /\ UNCHANGED <<cells, indicator, mappedHidden, draggable, undoVars, searchTerm,
                 searchPending, timerVars, dialog, storage, pageVars, saveVars,
                 lastLoad, classified, last>>

\* input event of #dest-search: safeSearch(term) sets the debounce timer
SearchInput(term) ==
  /\ dialog = "none"
  /\ searchTerm' = toLowerCase(term)
  /\ searchPending' = TRUE
  /\ UNCHANGED <<domVars, undoVars, localDestFilter, timerVars, dialog, storage,
                 sessionVars, last>>

SearchLimit == 100

\* the setTimeout(..., 300) callback of safeSearch
SearchTimer ==
  /\ searchPending
  /\ searchPending' = FALSE
  /\ IF Len(trim(searchTerm)) > SearchLimit
     THEN UNCHANGED <<visible, lastEval>>
     ELSE /\ visible' = filterDestinationList(mappedHidden, visible, localDestFilter,
                                              searchTerm)
          /\ lastEval' = Evaluation(localDestFilter, searchTerm, visible')
  /\ UNCHANGED <<cells, indicator, mappedHidden, draggable, undoVars, localDestFilter,
                 searchTerm, timerVars, dialog, storage, pageVars, saveVars, lastLoad, classified,
                 steps, last>>

\* click on the Clear All button: the confirmation is asked for
clearAllMappings ==
  /\ dialog = "none"
  /\ dialog' = IF \E r \in Rows : hasMappings(cells, r) THEN "clear" ELSE "nothing"
  /\ UNCHANGED <<domVars, undoVars, filterVars, timerVars, storage, sessionVars, last>>

\* the dialog is closed without a confirmed clear
CloseDialog ==
  /\ dialog # "none"
  /\ dialog' = "none"
  /\ pendingSave' = NoSave
  /\ pendingFrom' = NoPage
  /\ submitDisabled' = IF dialog = "save" THEN FALSE ELSE submitDisabled
  /\ UNCHANGED <<domVars, undoVars, filterVars, timerVars, storage, pageVars,
                 storageAvailable, lastSave, lastLoad, classified, lastEval, steps, last>>

\* variant: every key with the prefix is removed, the authentication keys too
performClearAll_AllKeys ==
  /\ dialog = "clear"
  /\ dialog' = "none"
  /\ LET placed == {cells[r][c] : r \in Rows, c \in ColSet} \ {NoItem}
         vis == [d \in Records |-> IF d \in placed THEN TRUE ELSE visible[d]]
     IN /\ visible' = vis
        /\ mappedHidden' = [d \in Records |-> IF d \in placed THEN FALSE
                                              ELSE mappedHidden[d]]
        /\ draggable' = makeDestinationDraggable(vis)
  /\ cells' = EmptyGrid
  /\ indicator' = [r \in Rows |-> FALSE]
  /\ storage' = [k \in DOMAIN storage |-> Absent]
  /\ last' = Gesture("clear", 0, "", NoItem, 0, "")
  /\ UNCHANGED <<undoVars, filterVars, timerVars, sessionVars, steps>>

\* "Yes, Clear All"
performClearAll ==
  /\ dialog = "clear"
  /\ dialog' = "none"
  /\ LET placed == {cells[r][c] : r \in Rows, c \in ColSet} \ {NoItem}
         vis == [d \in Records |-> IF d \in placed THEN TRUE ELSE visible[d]]
     IN /\ visible' = vis
        /\ mappedHidden' = [d \in Records |-> IF d \in placed THEN FALSE
                                              ELSE mappedHidden[d]]
        /\ draggable' = makeDestinationDraggable(vis)
  /\ cells' = EmptyGrid
  /\ indicator' = [r \in Rows |-> FALSE]
  /\ storage' = [k \in DOMAIN storage |-> IF k \in AuthKeys THEN storage[k] ELSE Absent]
  /\ last' = Gesture("clear", 0, "", NoItem, 0, "")
  /\ UNCHANGED <<undoVars, filterVars, timerVars, sessionVars, steps>>

(***************************************************************************)
(* Save and type switch                                                    *)
(***************************************************************************)
\* click on the Submit button: saveMapping collects the mapping of the page
\* and asks for the confirmation, or reports that there is nothing to save
saveMapping ==
  /\ dialog = "none"
  /\ ~submitDisabled
  /\ LET mappingData == [kind |-> "mapping", type |-> currentType,
                         updatedAt |-> "fresh", rows |-> collectRows(gridType, cells)]
         existing == loadMapping(storage, currentType)
         existingEmpty == IF existing.parsed.kind = "mapping"
                          THEN DOMAIN existing.parsed.rows = {}
                          ELSE TRUE
     IN /\ storage' = existing.store
        /\ IF existingEmpty /\ mappedCount(cells) = 0
           THEN /\ dialog' = "nochanges"
                /\ pendingSave' = NoSave
                /\ pendingFrom' = NoPage
                /\ submitDisabled' = FALSE
           ELSE /\ dialog' = "save"
                /\ submitDisabled' = TRUE
                /\ pendingSave' = mappingData
                /\ pendingFrom' = [type |-> gridType, cells |-> cells]
  /\ UNCHANGED <<domVars, undoVars, filterVars, timerVars, pageVars, storageAvailable,
                 lastSave, lastLoad, classified, lastEval, last>>

\* "Yes, Save": performSave(mappingData) with the length of the serialized
\* mapping and the outcomes of the writes as the environment gives them
performSave(size, writes) ==
  /\ dialog = "save"
  /\ LET saved == StorageManager_saveMapping(storage, storageAvailable, currentType,
                                             pendingSave, size, writes)
     IN /\ storage' = saved.store
        /\ lastSave' = [result |-> saved.result, attempts |-> saved.attempts,
                        cleanups |-> saved.cleanups, tried |-> saved.tried,
                        writes |-> SubSeq(writes, 1, saved.tried), size |-> size,
                        available |-> storageAvailable, data |-> pendingSave,
                        from |-> pendingFrom, key |-> MappingKey(currentType)]
        /\ indicator' = IF saved.result = "success"
                        THEN [r \in Rows |-> hasMappings(cells, r)]
                        ELSE indicator
        /\ submitDisabled' = IF saved.result = "success" THEN FALSE ELSE submitDisabled
  /\ dialog' = "none"
  /\ pendingSave' = NoSave
  /\ pendingFrom' = NoPage
  /\ UNCHANGED <<cells, mappedHidden, visible, draggable, undoVars, filterVars,
                 timerVars, pageVars, storageAvailable, lastLoad, classified, lastEval, steps, last>>

MaxPendingRender == 1

\* click on a .type-btn button: switchType(type) up to the start of the fade
switchType(type) ==
  /\ dialog = "none"
  /\ IF type \notin LoadedTypes
     THEN UNCHANGED <<currentType, localDestFilter, searchTerm, pendingRender>>
     ELSE /\ pendingRender < MaxPendingRender
          /\ currentType' = type
          /\ localDestFilter' = IF type = "Other Revenue & Expense" THEN "Other"
                                ELSE IF type \in standardTypes THEN type
                                ELSE ""
          /\ searchTerm' = <<>>
          /\ pendingRender' = pendingRender + 1
  /\ UNCHANGED <<domVars, undoVars, searchPending, timerVars, dialog, storage, gridType,
                 saveVars, lastLoad, classified, lastEval, last>>

\* one run of the callback: what it writes to the page and the storage
ShowPage(shown) ==
  /\ storage' = shown.store
  /\ cells' = shown.page.cells
  /\ mappedHidden' = shown.page.mappedHidden
  /\ visible' = shown.page.visible
  /\ draggable' = shown.page.draggable
  /\ indicator' = shown.indicator
  /\ lastLoad' = shown.load
  /\ lastEval' = shown.eval

\* the callback without its call of loadPersistedMapping
switchRender_NoLoad ==
  /\ pendingRender > 0
  /\ pendingRender' = pendingRender - 1
  /\ ShowPage(renderWith(storage, currentType, localDestFilter, searchTerm,
                         Rendered(localDestFilter, searchTerm),
                         [parsed |-> Absent, store |-> storage]))
  /\ gridType' = currentType
  /\ last' = Gesture("load", 0, "", NoItem, 0, "")
  /\ UNCHANGED <<undoVars, filterVars, timerVars, dialog, currentType, saveVars, steps,
                 classified>>

\* the completion of the fadeOut of switchType. It runs once for each of the
\* two faded elements, one run right after the other; the second run finds
\* what the first left and renders the same page
switchRender ==
  /\ pendingRender > 0
  /\ pendingRender' = pendingRender - 1
  /\ ShowPage(renderAndLoad(storage, currentType, localDestFilter, searchTerm))
  /\ gridType' = currentType
  /\ last' = Gesture("load", 0, "", NoItem, 0, "")
  /\ UNCHANGED <<undoVars, filterVars, timerVars, dialog, currentType, saveVars, steps,
                 classified>>

\* a call of filterManager.mapDestToMasterType for the account
classify ==
  /\ classified.out = "none"
  /\ classified' = [classified EXCEPT
                      !.out = mapDestToMasterType(classified.destType,
                                                  classified.destGroup)]
  /\ UNCHANGED <<domVars, undoVars, filterVars, timerVars, dialog, storage, pageVars,
                 saveVars, lastLoad, lastEval, steps, last>>

(***************************************************************************)
(* Specifications                                                          *)
(***************************************************************************)
\* a user gesture, counted
Counted == steps < MaxSteps /\ steps' = steps + 1

UserDrop ==
  \E r \in Rows, c \in ColSet, d \in Records : Counted /\ DropFromList(r, c, d)
UserMove ==
  \E fr \in Rows, fc \in ColSet, r \in Rows, c \in ColSet :
    Counted /\ MoveMapped(fr, fc, r, c)
UserReturn == \E fr \in Rows, fc \in ColSet : Counted /\ ReturnMapped(fr, fc)
UserRevert == \E fr \in Rows, fc \in ColSet : Counted /\ RevertMapped(fr, fc)
UserRemove == \E fr \in Rows, fc \in ColSet : Counted /\ removeMappedItem(fr, fc)
\* undo only shortens the stack and is not counted
UserUndo == UNCHANGED steps /\ performUndo
UserFilter == \E f \in FilterValues : Counted /\ FilterClick(f)
UserSearch == \E t \in SearchInputs : Counted /\ SearchInput(t)
UserClearAll == Counted /\ clearAllMappings
UserSave == Counted /\ saveMapping
UserSwitch == \E type \in TypeButtons : Counted /\ switchType(type)
ConfirmSave ==
  \E size \in SerializedSizes, writes \in [1..maxRetries -> WriteOutcomes] :
    performSave(size, writes)

\* place and remove only
NextPlace ==
  \/ UserDrop
  \/ UserMove
  \/ UserReturn
  \/ UserRevert
  \/ UserRemove
  \/ RefreshDraggable

SpecPlace == Init /\ [][NextPlace]_vars

Next ==
  \/ UserDrop
  \/ UserMove
  \/ UserReturn
  \/ UserRevert
  \/ UserRemove
  \/ UserUndo
  \/ UserFilter
  \/ UserSearch
  \/ UserClearAll
  \/ UserSave
  \/ UserSwitch
  \/ performClearAll
  \/ ConfirmSave
  \/ CloseDialog
  \/ UndoIndicators
  \/ RefreshDraggable
  \/ SearchTimer
  \/ switchRender

Spec == Init /\ [][Next]_vars

\* save, type switch and load, with every kind of stored entry; the clicks on
\* the type buttons are not counted as steps of the session
StoreSwitch == \E type \in TypeButtons : switchType(type) /\ UNCHANGED steps

NextStore ==
  \/ UserDrop
  \/ UserRemove
  \/ UserSave
  \/ StoreSwitch
  \/ ConfirmSave
  \/ CloseDialog
  \/ RefreshDraggable
  \/ switchRender

SpecStore == InitStore /\ [][NextStore]_vars

\* the classifier on the names of TypeNames and GroupNames
NextClassify == classify

SpecClassify == InitClassify /\ [][NextClassify]_vars

\* a call of normalizeTypeName for the type name
normalizeType ==
  /\ classified.norm = "none"
  /\ classified' = [classified EXCEPT !.norm = normalizeTypeName(classified.destType)]
  /\ UNCHANGED <<domVars, undoVars, filterVars, timerVars, dialog, storage, pageVars,
                 saveVars, lastLoad, lastEval, steps, last>>

\* the two normalizers on the names of NormNames
NextNormalize ==
  \/ classify
  \/ normalizeType

SpecNormalize == InitNormalize /\ [][NextNormalize]_vars

\* Long sessions on one cell: the drags and clicks on the mapped item of the
\* first Most Likely cell that call saveUndoState, and undo, bounded by the
\* number of snapshots taken instead of by the number of gestures
CanPush == pushCount < MaxPushes /\ UNCHANGED steps

LongRevert == CanPush /\ RevertMapped(1, "most")
LongRemove == CanPush /\ removeMappedItem(1, "most")
LongUndo == UNCHANGED steps /\ performUndo

NextUndoBound ==
  \/ LongRevert
  \/ LongRemove
  \/ LongUndo
  \/ UndoIndicators

SpecUndoBound == Init /\ [][NextUndoBound]_vars

(***************************************************************************)
(* Properties                                                              *)
(***************************************************************************)
CellSet == Rows \X ColSet
At(g, rc) == g[rc[1]][rc[2]]
Placed(g) == {At(g, rc) : rc \in CellSet} \ {NoItem}
SlotsOf(g, d) == {rc \in CellSet : At(g, rc) = d}
InPool(d) == visible[d] /\ ~mappedHidden[d]
InPoolNext(d) == visible'[d] /\ ~mappedHidden'[d]
FullRow(g, r) == \A c \in ColSet : g[r][c] # NoItem
OtherRowsSame(r) == \A r2 \in Rows \ {r} : cells'[r2] = cells[r2]

\* C1: under place and remove gestures alone, no destination record
\* occupies more than one (row, slot) cell
C1_GlobalUniqueness ==
  \A rc1, rc2 \in CellSet :
    (rc1 # rc2 /\ At(cells, rc1) # NoItem) => At(cells, rc1) # At(cells, rc2)

\* a record was removed and then placed again, next to two other records
C1_Witness ==
  /\ last.op = "drop" /\ last.prevOp = "remove"
  /\ last.d \in Placed(last.prevPre) /\ last.d \notin Placed(last.pre)
  /\ Cardinality(Placed(cells)) >= 3

\* C3: a record D from the pool dropped on Most of a full row (A, B, C)
\* leaves the row as (D, A, B), C in no slot and back in the pool, and the
\* other rows as they were
C3_CascadeFullRow ==
  [][\A r \in Rows, d \in Records :
       (FullRow(cells, r) /\ d \notin Placed(cells) /\ DropFromList(r, "most", d))
       => /\ cells'[r]["most"] = d
          /\ cells'[r]["likely"] = cells[r]["most"]
          /\ cells'[r]["possible"] = cells[r]["likely"]
          /\ cells[r]["possible"] \notin Placed(cells')
          /\ InPoolNext(cells[r]["possible"])
          /\ OtherRowsSame(r)]_vars

C3_Witness ==
  /\ last.op = "drop" /\ last.c = "most"
  /\ FullRow(last.pre, last.r) /\ last.d \notin Placed(last.pre)
  /\ cells[last.r] = [most |-> last.d, likely |-> last.pre[last.r]["most"],
                       possible |-> last.pre[last.r]["likely"]]
  /\ InPool(last.pre[last.r]["possible"])

\* C4: a record from the pool dropped on an occupied Possible evicts its
\* occupant to the pool and changes no other slot; dropped on an occupied
\* Likely it moves the Likely occupant to Possible, evicts the Possible
\* occupant (if any) to the pool and leaves Most as it was
C4_CascadeLowerTiers ==
  [][\A r \in Rows, d \in Records :
       /\ (cells[r]["possible"] # NoItem /\ d \notin Placed(cells)
             /\ DropFromList(r, "possible", d))
          => /\ cells'[r] = [cells[r] EXCEPT !["possible"] = d]
             /\ InPoolNext(cells[r]["possible"])
             /\ OtherRowsSame(r)
       /\ (cells[r]["likely"] # NoItem /\ d \notin Placed(cells)
             /\ DropFromList(r, "likely", d))
          => /\ cells'[r] = [most |-> cells[r]["most"], likely |-> d,
                              possible |-> cells[r]["likely"]]
             /\ cells[r]["possible"] # NoItem
                  => (InPoolNext(cells[r]["possible"])
                      /\ cells[r]["possible"] \notin Placed(cells'))
             /\ OtherRowsSame(r)]_vars

\* a drop on an occupied Likely above an occupied Possible has happened
C4_Witness ==
  /\ last.op = "drop" /\ last.c = "likely"
  /\ last.pre[last.r]["likely"] # NoItem /\ last.pre[last.r]["possible"] # NoItem
  /\ cells[last.r]["possible"] = last.pre[last.r]["likely"]
  /\ InPool(last.pre[last.r]["possible"])

\* C2: under every gesture (place, remove, undo, clear-all, after a load)
\* a destination record is in at most one slot of the grid
C2_UniqueUnderEveryOperation ==
  \A d \in Records : Cardinality(SlotsOf(cells, d)) <= 1

C6_PoolExclusion ==
  \A d \in Records : visible[d] => d \notin Placed(cells)

MutatingOps == {"drop", "move", "return", "remove"}

\* C7: a mutating gesture followed by one undo gives back the slot contents
\* the grid had before the gesture
C7_UndoRoundTrip ==
  (last.op = "undo" /\ last.prevOp \in MutatingOps) => cells = last.prevPre

\* a drop that evicted a record was undone
C7_Witness ==
  /\ last.op = "undo" /\ last.prevOp = "drop"
  /\ cells = last.prevPre /\ cells # last.pre
  /\ Cardinality(Placed(last.pre)) = Cardinality(Placed(cells))
  /\ Placed(last.pre) # Placed(cells)

\* the last n entries of a sequence
LastN(seq, n) == IF Len(seq) > n THEN SubSeq(seq, Len(seq) - n + 1, Len(seq)) ELSE seq

\* the serial numbers pushCount + 1 .. pushCount' of the snapshots of one step
NewSerials == [i \in 1..(pushCount' - pushCount) |-> pushCount + i]

\* C8: the undo stack never holds more than 10 snapshots; a push on a full
\* stack discards the oldest snapshot and keeps the others in push order, and
\* an undo takes the newest one off
C8_UndoBound ==
  [][/\ Len(undoStack') <= UndoLimit
     /\ Len(serials') = Len(undoStack')
     /\ pushCount' > pushCount
          => /\ serials' = LastN(serials \o NewSerials, UndoLimit)
             /\ undoStack' = LastN(undoStack \o [i \in DOMAIN NewSerials |->
                                                   undoStack'[Len(undoStack')]],
                                   UndoLimit)
     /\ (pushCount' = pushCount /\ undoStack' # undoStack)
          => /\ undoStack # <<>>
             /\ undoStack' = SubSeq(undoStack, 1, Len(undoStack) - 1)
             /\ serials' = SubSeq(serials, 1, Len(serials) - 1)]_vars

\* more than 10 snapshots were pushed, the oldest are gone, and the 10 most
\* recent ones are on the stack in push order
C8_Witness ==
  /\ pushCount > UndoLimit
  /\ Len(undoStack) = UndoLimit
  /\ serials = [i \in 1..UndoLimit |-> pushCount - UndoLimit + i]

\* C9: a drop, move, return or remove that changes the grid leaves on top of
\* the undo stack a snapshot of the grid (cells and tick marks) as it was
\* before the gesture
C9_SnapshotBeforeMutation ==
  [][(cells' # cells /\ last'.op \in MutatingOps)
       => /\ pushCount' > pushCount
          /\ undoStack' # <<>>
          /\ undoStack'[Len(undoStack')].cells = cells
          /\ undoStack'[Len(undoStack')].indicator = indicator]_vars

\* a remove has emptied a cell and its snapshot is on top of the stack
C9_Witness ==
  /\ last.op = "remove" /\ cells # last.pre
  /\ undoStack # <<>> /\ undoStack[Len(undoStack)].cells = last.pre

\* C10: undo on an empty stack changes nothing; undo on a non-empty stack
\* takes exactly the newest snapshot off and pushes none
C10_UndoPopsOne ==
  [][performUndo
       => IF undoStack = <<>>
          THEN UNCHANGED <<cells, indicator, mappedHidden, visible, draggable,
                           undoStack>>
          ELSE /\ undoStack' = SubSeq(undoStack, 1, Len(undoStack) - 1)
               /\ pushCount' = pushCount]_vars

\* an undo emptied the stack and the next undo found it empty
C10_Witness ==
  /\ last.op = "undoEmpty" /\ last.prevOp = "undo"
  /\ undoStack = <<>> /\ pushCount > 0

(***************************************************************************)
(* Persistence                                                             *)
(***************************************************************************)
\* a step of switchRender: one run of the fadeOut callback
IsLoadStep == pendingRender' = pendingRender - 1

\* C11: a successful save of a non-empty grid G of a type under that type,
\* followed by a load of the type into the freshly rendered page of the type,
\* gives every cell the occupant it has in G and leaves the empty cells of G
\* empty
C11_PersistenceRoundTrip ==
  [][(/\ IsLoadStep
      /\ lastSave.result = "success"
      /\ lastSave.from.cells # EmptyGrid
      /\ lastSave.from.type = currentType
      /\ lastSave.data.type = currentType)
     => cells' = lastSave.from.cells]_vars

\* a grid made by a drop on a page whose row ids differ from the row indexes
\* was saved and has been loaded again
C11_Witness ==
  /\ last.op = "load"
  /\ gridType = "Liabilities"
  /\ lastSave.result = "success"
  /\ lastSave.from = [type |-> "Liabilities", cells |-> cells]
  /\ cells # EmptyGrid
  /\ lastLoad.parsed = lastSave.data

\* the stored value is a JSON object of a mapping without a type or without rows
MissingTypeOrRows(v) ==
  v.kind = "mapping" /\ ~({"type", "rows"} \subseteq DOMAIN v)

\* C12: a load of a type whose stored value is a text that is not JSON, or a
\* JSON object without type or rows, returns no mapping and removes the key
C12_CorruptionRecovery ==
  (lastLoad.stored.kind = "text" \/ MissingTypeOrRows(lastLoad.stored))
    => lastLoad.parsed = Absent /\ lastLoad.after = Absent

\* C13: a save whose serialized mapping is longer than the size cap purges the
\* old entries, makes at most maxRetries attempts and, the mapping staying too
\* long, returns the not-saved result instead of raising an exception
C13_SizeOverflow ==
  (lastSave.result # "none" /\ lastSave.size > SizeCap)
    => /\ lastSave.result = "fallback"
       /\ lastSave.attempts <= maxRetries
       /\ lastSave.available => lastSave.cleanups >= 1

\* every write of the last save raised QuotaExceededError
AllQuota(save) ==
  /\ save.tried >= 1
  /\ \A i \in 1..save.tried : save.writes[i] = "quota"
  /\ save.result # "success"

\* C14: a save all of whose writes raise QuotaExceededError ends after exactly
\* maxRetries writes with a cleanup after each, returns the not-saved result
\* and leaves the grid, the destination list and the undo stack as they were
C14_QuotaRetryLoop ==
  [][(dialog = "save" /\ dialog' = "none" /\ AllQuota(lastSave'))
     => /\ lastSave'.tried = 3
        /\ lastSave'.cleanups = 3
        /\ lastSave'.attempts = 3
        /\ lastSave'.result = "fallback"
        /\ UNCHANGED <<cells, mappedHidden, visible, draggable, undoStack>>]_vars

\* a save on a non-empty grid met the quota error three times; the cleanups
\* removed the old entry of the other type
C14_Witness ==
  /\ lastSave.writes = <<"quota", "quota", "quota">>
  /\ lastSave.result = "fallback"
  /\ cells # EmptyGrid
  /\ undoStack # <<>>
  /\ storage[MappingKey("Liabilities")] = Absent
  /\ lastSave.data.type = "Assets"

(***************************************************************************)
(* Classifier                                                              *)
(***************************************************************************)
OtherCategory == "Other Revenue & Expense"

\* OTHER is one of the words of the name (words are separated by spaces)
HasOtherWord(ws) == \E i \in 1..Len(ws) : ws[i] = KW.OTHER

C16_ClassifierTotal ==
  classified.out # "none"
    => /\ classified.out \in MasterTypeSet
       /\ ((\A i \in 1..Len(classified.typeWords) : classified.typeWords[i] = Misc)
             => classified.out = OtherCategory)

\* a type of unknown words, with a group of unknown words, fell to Other
C16_Witness ==
  /\ classified.typeWords = <<Misc, Misc>>
  /\ classified.groupWords = <<Misc>>
  /\ classified.out = OtherCategory

(***************************************************************************)
(* Destination list                                                        *)
(***************************************************************************)
\* the record passes the local filter: no filter, or its master type is the
\* filter, Other standing for the Other category
MatchesFilter(d, filter) ==
  \/ filter = ""
  \/ filter = "Other" /\ DestMaster[d] = OtherCategory
  \/ filter # "Other" /\ DestMaster[d] = filter

\* the record passes the search: no term, or its text "number name" in lower
\* case contains the term
MatchesSearch(d, term) ==
  \/ term = <<>>
  \/ includes(toLowerCase(allDestinationData[d].number \o <<" ">>
                          \o allDestinationData[d].name), term)

\* C17: after a run of the filter a record is displayed in the list exactly
\* when it is in no cell, passes the local filter and passes the search
C17_VisiblePoolDerivation ==
  [][lastEval' # lastEval
     => \A d \in Records :
          lastEval'.out[d] <=> /\ d \notin Placed(lastEval'.cells)
                               /\ MatchesFilter(d, lastEval'.filter)
                               /\ MatchesSearch(d, lastEval'.term)]_vars

\* C18: two runs of the filter on the same destination data, grid, local
\* filter and search term display the same items, whatever happened between
\* them
C18_FilterPurity ==
  [][(/\ lastEval'.type = lastEval.type
      /\ lastEval'.cells = lastEval.cells
      /\ lastEval'.filter = lastEval.filter
      /\ lastEval'.term = lastEval.term)
     => lastEval'.out = lastEval.out]_vars

(***************************************************************************)
(* Row indicators and removal                                              *)
(***************************************************************************)
\* C19: once an operation has completed (no animation frame of an undo is
\* pending), the tick mark of every row is shown exactly when one of the
\* three cells of the row holds a mapped item
C19_RowIndicator ==
  ~rafPending => \A r \in Rows : indicator[r] <=> hasMappings(cells, r)

\* C20: a click-remove on a cell empties that cell, shows its occupant in the
\* list again without the mapped-hidden class, and leaves every other cell of the
\* grid as it was: no occupant of a lower tier moves up
C20_RemoveNoCascade ==
  [][(last' # last /\ last'.op = "remove")
     => LET r == last'.r
            c == last'.c
            occupant == cells[r][c]
        IN /\ occupant # NoItem
           /\ cells'[r][c] = NoItem
           /\ \A rc \in CellSet : rc # <<r, c>> => At(cells', rc) = At(cells, rc)
           /\ ~mappedHidden'[occupant]
           /\ visible'[occupant]]_vars

\* the Most item of a row was removed and the Likely item stayed in Likely
C20_Witness ==
  /\ last.op = "remove" /\ last.c = "most"
  /\ last.pre[last.r].likely # NoItem
  /\ cells[last.r].likely = last.pre[last.r].likely
  /\ cells[last.r].most = NoItem
  /\ ~mappedHidden[last.d] /\ visible[last.d]

(***************************************************************************)
(* Types and their persisted mappings                                      *)
(***************************************************************************)
\* the mapping stored for the type, when it is one that loadMapping accepts
HasMapping(store, type) ==
  store[MappingKey(type)].kind = "mapping"
    /\ "rows" \in DOMAIN store[MappingKey(type)]

\* the (type, row id, column) slots of the stored mappings that hold record d
PersistedSlots(store, d) ==
  {s \in LoadedTypes \X RowIds \X ColSet :
     /\ HasMapping(store, s[1])
     /\ s[2] \in DOMAIN store[MappingKey(s[1])].rows
     /\ s[3] \in DOMAIN store[MappingKey(s[1])].rows[s[2]]
     /\ store[MappingKey(s[1])].rows[s[2]][s[3]].id = d}

\* C21: a record of the stored mapping of another type is in no cell of the
\* page, and over the stored mappings of all types no record is in more than
\* one slot
C21_SystemWideUniqueness ==
  \A d \in Records :
    /\ (\E s \in PersistedSlots(storage, d) : s[1] # gridType) => d \notin Placed(cells)
    /\ Cardinality(PersistedSlots(storage, d)) <= 1

(***************************************************************************)
(* Shapes of a row                                                         *)
(***************************************************************************)
\* Most and Possible hold an item and Likely holds none
Gap(g, r) == g[r].most # NoItem /\ g[r].likely = NoItem /\ g[r].possible # NoItem

\* C22 as stated: no drop and no move gives the gap shape to the target row
\* or to the row the item was moved from when the row did not have it before
C22_NoGapByPlace ==
  [][(last' # last /\ last'.op \in {"drop", "move"})
     => \A r \in Rows : (r \in {last'.r, last'.fr} /\ ~Gap(cells, r)) => ~Gap(cells', r)]_vars

\* C22 amended: a drop from the list, or a move from another row, onto an
\* occupied cell (a cascade) does not give the gap shape to the target row
\* when the row did not have it before
C22_NoGapByCascade ==
  [][(/\ last' # last
      /\ last'.op = "drop" \/ (last'.op = "move" /\ last'.fr # last'.r)
      /\ cells[last'.r][last'.c] # NoItem
      /\ ~Gap(cells, last'.r))
     => ~Gap(cells', last'.r)]_vars

\* an item was dropped on an occupied Most cell of a row with an empty Likely
\* cell: the old occupant of Most is in Likely
C22_Witness ==
  /\ last.op = "drop" /\ last.c = "most"
  /\ last.pre[last.r].most # NoItem
  /\ last.pre[last.r].likely = NoItem
  /\ cells[last.r].likely = last.pre[last.r].most
  /\ cells[last.r].most = last.d

(***************************************************************************)
(* What a save writes                                                      *)
(***************************************************************************)
\* C23: in the object a successful save wrote, only rows with a mapped item
\* have a key, a row has the key of a column exactly when the cell of the
\* column holds an item, no value is null, and the type field is the type of
\* the key that was written
C23_PersistedShape ==
  lastSave.result = "success"
    => LET data == lastSave.data
           g == lastSave.from.cells
           idOf == masterData[lastSave.from.type]
       IN /\ \A id \in DOMAIN data.rows :
               \E r \in Rows : idOf[r] = id /\ hasMappings(g, r)
          /\ \A r \in Rows :
               hasMappings(g, r)
                 => /\ idOf[r] \in DOMAIN data.rows
                    /\ \A c \in ColSet :
                         /\ c \in DOMAIN data.rows[idOf[r]] <=> g[r][c] # NoItem
                         /\ c \in DOMAIN data.rows[idOf[r]]
                              => data.rows[idOf[r]][c].id \in Records
          /\ lastSave.key = MappingKey(data.type)

\* the saved page had a row without items and a row with an empty cell next
\* to a filled one
C23_Witness ==
  /\ lastSave.result = "success"
  /\ \E r \in Rows : ~hasMappings(lastSave.from.cells, r)
  /\ \E r \in Rows : /\ hasMappings(lastSave.from.cells, r)
                     /\ \E c \in ColSet : lastSave.from.cells[r][c] = NoItem
  /\ storage[lastSave.key] = lastSave.data

(***************************************************************************)
(* C24                                                                     *)
(***************************************************************************)

\* the row ids of the entry a load parsed that are no row of the page
UnknownRows(load) ==
  IF load.parsed.kind = "mapping"
  THEN {id \in DOMAIN load.parsed.rows : rowIndexOf(load.type, id) = 0}
  ELSE {}

\* C24: a load of a persisted entry that names a row id that is not a row of
\* the page is reported as a RowNotFound error and leaves the freshly rendered
\* page alone: no cell filled, no record taken from the pool, the undo stack
\* as it was
C24_UnknownRow ==
  [][(IsLoadStep /\ UnknownRows(lastLoad') # {})
       => /\ lastLoad'.error = "RowNotFound"
          /\ cells' = EmptyGrid
          /\ \A d \in Records : ~mappedHidden'[d]
          /\ undoStack' = undoStack]_vars

\* an entry with a row id that is not on the page was loaded
C24_LoadedUnknown == UnknownRows(lastLoad) # {} /\ cells # EmptyGrid

(***************************************************************************)
(* C25                                                                     *)
(***************************************************************************)

\* the grid an entry of the storage describes on the page of a type: the
\* stored slots of the rows of the page, nothing if there is no mapping
StoredGrid(entry, type) ==
  [r \in Rows |->
     [c \in ColSet |->
        IF /\ validateMapping(entry)
           /\ masterData[type][r] \in DOMAIN entry.rows
           /\ c \in DOMAIN entry.rows[masterData[type][r]]
        THEN entry.rows[masterData[type][r]][c].id
        ELSE NoItem]]

\* C25: when the re-render of a switch to a type has completed, the grid is
\* what is stored for the type (empty if nothing is), whatever was placed and
\* not saved before; every record that is not in the stored grid is back among
\* the unplaced ones; and the stored entries are what they were before the
\* render, a parseable entry of the type included
C25_CategoryLifecycle ==
  [][(IsLoadStep /\ storage[MappingKey(currentType)].kind # "text")
       => /\ cells' = StoredGrid(storage[MappingKey(currentType)], currentType)
          /\ \A d \in Records : mappedHidden'[d] <=> d \in Placed(cells')
          /\ storage' = storage]_vars

\* Assets was shown and a record placed there without a save, Liabilities was
\* shown and a record placed there, and Assets has been rendered again
C25_Witness ==
  /\ Len(undoStack) = 2
  /\ undoStack[1].type = InitialType
  /\ undoStack[2].type # InitialType
  /\ gridType = InitialType
  /\ last.op = "load"
  /\ lastSave = NoSaveYet
  /\ cells = undoStack[1].cells
  /\ Placed(cells) # {}

(***************************************************************************)
(* C26                                                                     *)
(***************************************************************************)

\* a drop from the list of a record that is in no cell onto an occupied Most
\* cell of a row whose Likely and Possible cells are not both occupied
PartialCascade ==
  /\ last' # last
  /\ last'.op = "drop"
  /\ last'.c = "most"
  /\ last'.d \notin Placed(cells)
  /\ cells[last'.r]["most"] # NoItem
  /\ cells[last'.r]["likely"] = NoItem \/ cells[last'.r]["possible"] = NoItem

\* C26: a partial cascade stops at the first empty tier. With Likely empty the
\* old occupant of Most moves to Likely and Possible is left as it is; with
\* Likely occupied and Possible empty Likely moves to Possible and Most to
\* Likely; in both cases no record leaves the grid
C26_PartialCascade ==
  [][PartialCascade
       => /\ cells'[last'.r]["most"] = last'.d
          /\ cells'[last'.r]["likely"] = cells[last'.r]["most"]
          /\ cells'[last'.r]["possible"] =
               IF cells[last'.r]["likely"] = NoItem
               THEN cells[last'.r]["possible"]
               ELSE cells[last'.r]["likely"]
          /\ OtherRowsSame(last'.r)
          /\ Placed(cells') = Placed(cells) \cup {last'.d}
          /\ \A e \in Placed(cells) : mappedHidden'[e] = mappedHidden[e]]_vars

\* a record was dropped on an occupied Most cell with Likely empty and Possible
\* occupied
C26_Witness ==
  /\ last.op = "drop"
  /\ last.c = "most"
  /\ last.d \notin Placed(last.pre)
  /\ last.pre[last.r]["most"] # NoItem
  /\ last.pre[last.r]["likely"] = NoItem
  /\ last.pre[last.r]["possible"] # NoItem
  /\ cells[last.r]["possible"] = last.pre[last.r]["possible"]

\* a record was dropped on an occupied Most cell with Likely occupied and
\* Possible empty
C26_WitnessLikely ==
  /\ last.op = "drop"
  /\ last.c = "most"
  /\ last.pre[last.r]["most"] # NoItem
  /\ last.pre[last.r]["likely"] # NoItem
  /\ last.pre[last.r]["possible"] = NoItem

(***************************************************************************)
(* C27                                                                     *)
(***************************************************************************)

\* C27: after a confirmed clear-all every cell of the grid is empty, every
\* record that was in a cell is shown in the list and not mapped-hidden, every
\* tick mark is hidden, every key of a mapping is removed from the storage
\* whatever its type, and the three authentication keys hold what they held
C27_ClearAll ==
  [][(last' # last /\ last'.op = "clear")
       => /\ cells' = EmptyGrid
          /\ \A d \in Placed(cells) : InPoolNext(d)
          /\ \A r \in Rows : ~indicator'[r]
          /\ \A k \in DOMAIN storage :
               storage'[k] = IF k \in AuthKeys THEN storage[k] ELSE Absent]_vars

\* a grid with placed records was cleared and the mapping the page had loaded
\* from the storage is gone
C27_Witness ==
  /\ last.op = "clear"
  /\ Placed(last.pre) # {}
  /\ lastLoad.stored.kind = "mapping"
  /\ storage[MappingKey(lastLoad.type)] = Absent
  /\ \A k \in AuthKeys : storage[k] # Absent

(***************************************************************************)
(* C28                                                                     *)
(***************************************************************************)

\* C28: no record is lost. In every state each destination record is not
\* marked mapped-hidden, and so available in the list, or is in exactly one
\* cell of the grid
C28_NoRecordLost ==
  \A d \in Records :
    ~mappedHidden[d] \/ Cardinality(SlotsOf(cells, d)) = 1

(***************************************************************************)
(* C29                                                                     *)
(***************************************************************************)

\* C29: undo is scoped to the active type. When the page of the active type
\* is shown and no render is pending, an undo restores a snapshot that was
\* taken on a page of that type, and the rows in the grid after it are rows of
\* the active type
C29_UndoScoped ==
  [][(/\ last' # last
      /\ last'.op = "undo"
      /\ pendingRender = 0
      /\ gridType = currentType)
       => /\ undoStack[Len(undoStack)].type = currentType
          /\ gridType' = currentType']_vars

(***************************************************************************)
(* C30                                                                     *)
(***************************************************************************)

\* C30: a save never stores the grid of one type under the key of another.
\* After a successful save the key written is the key of the type whose page
\* the rows were collected from at the Submit click, the type field written
\* is that type, and the row ids written are row ids of that type
C30_SaveUnderOwnKey ==
  lastSave.result = "success"
    => /\ lastSave.key = MappingKey(lastSave.from.type)
       /\ lastSave.data.type = lastSave.from.type
       /\ \A id \in DOMAIN lastSave.data.rows : rowIndexOf(lastSave.data.type, id) # 0

(***************************************************************************)
(* C31                                                                     *)
(***************************************************************************)

\* C31: the cleanup a quota failure runs touches mapping entries only. A save
\* that ran the cleanup leaves the three authentication keys as they were, and
\* a mapping key other than the one written changes only by the removal of an
\* entry that does not parse or is more than 30 days old
C31_CleanupKeepsAuth ==
  [][(dialog = "save" /\ dialog' = "none" /\ lastSave' # lastSave
        /\ lastSave'.cleanups > 0)
       => /\ \A k \in AuthKeys : storage'[k] = storage[k]
          /\ \A k \in MappingKeys \ {lastSave'.key} :
               storage'[k] # storage[k]
                 => /\ storage'[k] = Absent
                    /\ \/ storage[k].kind = "text"
                       \/ ("updatedAt" \in DOMAIN storage[k]
                             /\ storage[k].updatedAt = "old")]_vars

(***************************************************************************)
(* C32                                                                     *)
(***************************************************************************)

\* C32: the submit control is always released. A Submit click disables it;
\* once the outcome of the click is there (nothing to save, the confirmation
\* cancelled, or the save run with whatever result) and no dialog is open, the
\* control is enabled again, so that a later save can start
C32_SubmitReleased ==
  dialog = "none" => ~submitDisabled

(***************************************************************************)
(* C33                                                                     *)
(***************************************************************************)

\* C33: one snapshot per mutation. A place from the list, a move of a mapped
\* item to another cell, a drag of a mapped item back to the list and a click
\* on a remove button each push exactly one snapshot; a drag of a mapped item
\* that is reverted, which leaves the grid as it is, pushes none
C33_OneSnapshotPerMutation ==
  [][/\ (last' # last /\ last'.op \in {"drop", "move", "return", "remove"})
          => pushCount' = pushCount + 1
     /\ (last' # last /\ last'.op = "revert")
          => (pushCount' = pushCount /\ undoStack' = undoStack)]_vars

(***************************************************************************)
(* C34                                                                     *)
(***************************************************************************)

\* C34: the two normalizers agree. For a type name t given to both,
\* normalizeTypeName(t) and mapDestToMasterType(t, '') return the same
\* standard type
C34_NormalizersAgree ==
  (classified.out # "none" /\ classified.norm # "none" /\ classified.destGroup = <<>>)
    => classified.norm = classified.out

====
